---- MODULE Spec2Model ----
(***************************************************************************)
(* A model of src/App.tsx (dpi_enhancer): the image-enhancement pixel      *)
(* pipeline (resample, denoise, deblur, tone adjustment, sharpen) and the  *)
(* React component state around it (image, selections, processing flag,    *)
(* download).                                                              *)
(*                                                                         *)
(* Numbers.  The settings of the source are decimal fractions with two     *)
(* digits; they are kept here in hundredths (brightness 1.05 is 105) and   *)
(* every expression of the source is evaluated exactly, as a fraction      *)
(* num / den.  A store into a Uint8ClampedArray is ToUint8Clamp: clamp to  *)
(* 0..255 and round to nearest.  The source computes in IEEE doubles, which *)
(* may land an exact half-way value a hair to either side, so what a store *)
(* does at an exact half is left open: tieMode picks, per run, how halves  *)
(* are resolved.  Every other value is further from a half than any double *)
(* rounding error.                                                         *)
(*                                                                         *)
(* The specifications share the variables:                                 *)
(*   Spec      the component: upload, selections, enhance (click, image    *)
(*             load, resume), download, start over;                        *)
(*   FairSpec  Spec with the load event of a decodable image and the       *)
(*             continuation of a resolved await eventually delivered;      *)
(*   PipeSpec  the body of the load callback as a function of its inputs   *)
(*             (source dimensions, resolution, settings), one action per   *)
(*             stage, with the settings drawn from the catalog and from    *)
(*             tuples outside it.                                          *)
(* startCamera/capturePhoto are left out: the <video> element that         *)
(* videoRef points at is rendered only while showCamera is true, so        *)
(* startCamera finds videoRef.current null and never sets showCamera.      *)
(***************************************************************************)
EXTENDS Integers, Sequences, FiniteSets, TLC

\* ------------------------------------------------------------------ bounds
\* Largest width and height of a source image handed to the pipeline.
MaxImg == 3
\* PipeSpec follows the inputs whose canvas holds at most this many pixels.
MaxPixels == 64
\* Largest width and height of an uploaded image in Spec.
MaxUpload == 1
\* Spec follows an enhance only while the canvas side stays within this.
MaxCanvas == 8

\* ---------------------------------------------------------------- catalogs
BaseDpi == 72

RESOLUTIONS ==
  << [name |-> "Standard Web",   dpi |-> 72],
     [name |-> "Medium Quality", dpi |-> 150],
     [name |-> "Print Quality",  dpi |-> 300],
     [name |-> "High-Res Print", dpi |-> 600] >>

\* settings in hundredths
ENHANCEMENT_PRESETS ==
  << [name |-> "Balanced",
      settings |-> [brightness |-> 100, contrast |-> 100, sharpness |-> 110,
                    deblur |-> 50, denoise |-> 30]],
     [name |-> "Clarity",
      settings |-> [brightness |-> 105, contrast |-> 110, sharpness |-> 140,
                    deblur |-> 80, denoise |-> 40]],
     [name |-> "HDR",
      settings |-> [brightness |-> 115, contrast |-> 130, sharpness |-> 120,
                    deblur |-> 60, denoise |-> 50]],
     [name |-> "AI Enhance",
      settings |-> [brightness |-> 110, contrast |-> 120, sharpness |-> 150,
                    deblur |-> 100, denoise |-> 70]] >>

\* Settings tuples outside the catalog that applyImageEnhancements accepts
\* (EnhancementPreset['settings'] is any five numbers): the stages' no-op
\* values, a strength above 1, brightness 1.2 with contrast 1.0.
ExtraSettings ==
  { [brightness |-> 120, contrast |-> 100, sharpness |-> 100, deblur |-> 0,
     denoise |-> 0],
    [brightness |-> 100, contrast |-> 100, sharpness |-> 90, deblur |-> 20,
     denoise |-> 0],
    [brightness |-> 50, contrast |-> 250, sharpness |-> 300, deblur |-> 0,
     denoise |-> 150] }

CatalogSettings == { ENHANCEMENT_PRESETS[k].settings : k \in 1..Len(ENHANCEMENT_PRESETS) }

SettingsDomain == CatalogSettings \cup ExtraSettings

VARIABLES
  \* --- component state (useState) and the enhance invocation in flight
  image, isProcessing, selectedResolution, selectedPreset,
  epc,        \* where the enhanceImage invocation stands
  closure,    \* what the invocation captured at the click
  download,   \* what the step just taken offered for download, if anything
  \* --- the load callback's body (PipeSpec)
  pc, img, resolution, settings, canvas, data, pre, orig, log,
  tieMode

appVars  == << image, isProcessing, selectedResolution, selectedPreset, epc,
               closure, download >>
pipeVars == << pc, img, resolution, settings, canvas, data, pre, orig, log >>
vars     == << appVars, pipeVars, tieMode >>

\* ------------------------------------------------------------- arithmetic
Min(a, b) == IF a < b THEN a ELSE b
Max(a, b) == IF a > b THEN a ELSE b
Abs(a) == IF a < 0 THEN -a ELSE a

\* Math.ceil(num / den), num >= 0, den > 0
Ceil(num, den) == (num + den - 1) \div den

TieModes == {"even", "up", "down"}

\* Mutant of ToUint8Clamp: the store of a plain number array that rounds and
\* does not clamp.
StoreUnclamped(num, den) ==
  LET q == num \div den
      r == num % den
  IN IF 2 * r < den THEN q ELSE q + 1

\* A store of num/den (den > 0) into a Uint8ClampedArray element.
ToUint8Clamp(num, den) ==
  IF num <= 0 THEN 0
  ELSE IF num >= 255 * den THEN 255
  ELSE LET q == num \div den
           r == num % den
       IN IF 2 * r < den THEN q
          ELSE IF 2 * r > den THEN q + 1
          ELSE CASE tieMode = "even" -> (IF q % 2 = 0 THEN q ELSE q + 1)
                 [] tieMode = "up"   -> q + 1
                 [] OTHER            -> q

\* ---------------------------------------------------------------- buffers
\* An ImageData's data: the bytes R,G,B,A of the pixels, row-major, indexed
\* from 0 as in the source: byte c of pixel (x, y) is at (y*width + x)*4 + c.
ChanOf(i) == i % 4
XOf(width, i) == (i \div 4) % width
YOf(width, i) == (i \div 4) \div width

\* The loop bounds of applyDenoise and applyDeblur:
\*   for (y = radius; y < height - radius; y++)
\*     for (x = radius; x < width - radius; x++)
InLoop(width, height, radius, x, y) ==
  /\ y >= radius /\ y < height - radius
  /\ x >= radius /\ x < width - radius

\* The values the two inner loops (ky outer, kx inner) read from tempData for
\* channel c around (x, y), in the order they are read.
Neighbors(tempData, width, radius, x, y, c) ==
  LET side == 2 * radius + 1
  IN [k \in 1..(side * side) |->
        LET ky == ((k - 1) \div side) - radius
            kx == ((k - 1) % side) - radius
        IN tempData[((y + ky) * width + (x + kx)) * 4 + c]]

RECURSIVE InsertSorted(_, _)
InsertSorted(s, v) ==
  IF s = << >> THEN << v >>
  ELSE IF v < Head(s) THEN << v >> \o s
  ELSE << Head(s) >> \o InsertSorted(Tail(s), v)

RECURSIVE SortAsc(_)
\* neighbors.sort((a, b) => a - b)
SortAsc(s) == IF s = << >> THEN << >> ELSE InsertSorted(SortAsc(Tail(s)), Head(s))

RECURSIVE SumSeq(_)
SumSeq(s) == IF s = << >> THEN 0 ELSE Head(s) + SumSeq(Tail(s))

\* neighbors[Math.floor(neighbors.length / 2)] of the sorted array (0-based
\* there, 1-based here)
Median(neighbors) == SortAsc(neighbors)[(Len(neighbors) \div 2) + 1]

\* ---------------------------------------------------------------- denoise
\* Mutant of DenoiseRadius: Math.floor for Math.ceil.
DenoiseRadiusFloor(strength) == (strength * 2) \div 100

\* Math.ceil(strength * 2)
DenoiseRadius(strength) == Ceil(strength * 2, 100)

\* data[idx] = tempData[idx] * (1 - strength) + median * strength
DenoiseValue(original, median, strength) ==
  ToUint8Clamp(original * (100 - strength) + median * strength, 100)

applyDenoise(tempData, width, height, strength) ==
  LET radius == DenoiseRadius(strength)
  IN [idx \in DOMAIN tempData |->
        LET c == ChanOf(idx)
            x == XOf(width, idx)
            y == YOf(width, idx)
        IN IF c < 3 /\ InLoop(width, height, radius, x, y)
           THEN DenoiseValue(tempData[idx],
                             Median(Neighbors(tempData, width, radius, x, y, c)),
                             strength)
           ELSE tempData[idx]]

\* ----------------------------------------------------------------- deblur
DeblurRadius(strength) == Ceil(strength * 3, 100)

threshold == 10

\* Mutant of DeblurValue: the threshold test dropped.
DeblurValueNoThreshold(original, sum, count, strength) ==
  LET den == 200 * count
      num == original * den + (original * count - sum) * 3 * strength
  IN ToUint8Clamp(Min(255 * den, Max(0, num)), den)

\* One channel of one pixel of the unsharp mask.  avg = sum / count and
\* diff = tempData[idx] - avg, so diff = (original*count - sum) / count;
\* amount = strength * 1.5 = 3 * strength / 200 (strength in hundredths).
DeblurValue(original, sum, count, strength) ==
  LET diffNum == original * count - sum
  IN IF Abs(diffNum) > threshold * count
     THEN LET den == 200 * count
              num == original * den + diffNum * 3 * strength
          IN ToUint8Clamp(Min(255 * den, Max(0, num)), den)
     ELSE original

applyDeblur(tempData, width, height, strength) ==
  LET radius == DeblurRadius(strength)
  IN [idx \in DOMAIN tempData |->
        LET c == ChanOf(idx)
            x == XOf(width, idx)
            y == YOf(width, idx)
        IN IF c < 3 /\ InLoop(width, height, radius, x, y)
           THEN LET nb == Neighbors(tempData, width, radius, x, y, c)
                IN DeblurValue(tempData[idx], SumSeq(nb), Len(nb), strength)
           ELSE tempData[idx]]

\* ------------------------------------------------------------------- tone
\* data[i + j] = Math.min(255, data[i + j] * settings.brightness)
BrightnessChannel(v, brightness) ==
  ToUint8Clamp(Min(255 * 100, v * brightness), 100)

\* data[i + j] = Math.min(255, ((channel/255 - 0.5) * contrast + 0.5) * 255)
\*   ((channel/255 - 1/2) * contrast/100 + 1/2) * 255
\*     = ((2*channel - 255) * contrast + 25500) / 200
ContrastChannel(channel, contrast) ==
  ToUint8Clamp(Min(255 * 200, (2 * channel - 255) * contrast + 25500), 200)

\* Mutant of ToneChannel: the two loops in the other order.
ToneChannelContrastFirst(v, brightness, contrast) ==
  BrightnessChannel(ContrastChannel(v, contrast), brightness)

\* The brightness loop stores its result in data[i + j]; the contrast loop
\* reads that byte back.
ToneChannel(v, brightness, contrast) ==
  ContrastChannel(BrightnessChannel(v, brightness), contrast)

applyTone(d, brightness, contrast) ==
  [i \in DOMAIN d |->
     IF ChanOf(i) < 3 THEN ToneChannel(d[i], brightness, contrast) ELSE d[i]]

\* ---------------------------------------------------------------- sharpen
\* Mutant of kernel: the normalised kernel, centre 9 without the boost.
kernelNoBoost(sharpness) ==
  << << -1000, -1000, -1000 >>,
     << -1000, 9000, -1000 >>,
     << -1000, -1000, -1000 >> >>

\* kernel, in thousandths: sharpenStrength = (sharpness - 1) * 0.8
kernel(sharpness) ==
  LET sharpenStrength == (sharpness - 100) * 8
  IN << << -1000, -1000, -1000 >>,
        << -1000, 9000 + sharpenStrength, -1000 >>,
        << -1000, -1000, -1000 >> >>

\* sum over ky, kx of tempImageData.data[...] * kernel[ky + 1][kx + 1]
KernelSum(tempData, width, x, y, c, k) ==
  SumSeq([n \in 1..9 |->
            LET ky == ((n - 1) \div 3) - 1
                kx == ((n - 1) % 3) - 1
            IN tempData[((y + ky) * width + (x + kx)) * 4 + c] * k[ky + 2][kx + 2]])

\* data[idx] = Math.min(255, Math.max(0, sum))
SharpenValue(sum) == ToUint8Clamp(Min(255 * 1000, Max(0, sum)), 1000)

\* for (y = 1; y < height - 1; y++) for (x = 1; x < width - 1; x++)
InSharpenLoop(width, height, x, y) ==
  /\ y >= 1 /\ y < height - 1
  /\ x >= 1 /\ x < width - 1

applySharpen(tempData, width, height, sharpness) ==
  LET k == kernel(sharpness)
  IN [idx \in DOMAIN tempData |->
        LET c == ChanOf(idx)
            x == XOf(width, idx)
            y == YOf(width, idx)
        IN IF c < 3 /\ InSharpenLoop(width, height, x, y)
           THEN SharpenValue(KernelSum(tempData, width, x, y, c, k))
           ELSE tempData[idx]]

\* Mutant of RunsDenoise: the guard reads the other strength.
RunsDenoiseOnDeblur(s) == s.deblur > 0

\* Mutant of RunsSharpen: >= for >.
RunsSharpenFromOne(s) == s.sharpness >= 100

\* The guards of applyImageEnhancements.
RunsDenoise(s) == s.denoise > 0

RunsDeblur(s) == s.deblur > 0

RunsSharpen(s) == s.sharpness > 100


\* --------------------------------------------------------------- resample
\* canvas.width = img.width * scaleFactor, scaleFactor = dpi / 72: the
\* canvas width and height are unsigned long attributes, and the conversion
\* of a number to unsigned long drops its fraction.
ToUnsignedLong(num, den) == num \div den

\* Mutant of CanvasSize: Math.round before the assignment.
CanvasSizeRounded(imgSize, dpi) == (2 * imgSize * dpi + BaseDpi) \div (2 * BaseDpi)

CanvasSize(imgSize, dpi) == ToUnsignedLong(imgSize * dpi, BaseDpi)

\* What drawImage leaves on the canvas is the browser's smoothing of the
\* source, which the source does not determine: any buffer of the canvas's
\* size.  The buffers followed are these patterns over these value pairs;
\* the alpha bytes vary over the pixels.
Patterns == {"uniform", "impulse", "edge", "checker", "ramp"}

ValuePairs == { << 100, 108 >>, << 100, 130 >>, << 0, 255 >>, << 200, 250 >>,
                << 255, 5 >> }

PatternValue(pat, a, b, width, height, x, y) ==
  CASE pat = "uniform" -> a
    [] pat = "impulse" -> IF x = width \div 2 /\ y = height \div 2 THEN b ELSE a
    [] pat = "edge"    -> IF 2 * x < width THEN a ELSE b
    [] pat = "checker" -> IF (x + y) % 2 = 0 THEN a ELSE b
    [] OTHER           -> (a + 9 * x + 23 * y) % 256

DrawnBuffer(pat, a, b, width, height) ==
  [i \in 0..(4 * width * height - 1) |->
     LET x == XOf(width, i)
         y == YOf(width, i)
         v == PatternValue(pat, a, b, width, height, x, y)
     IN CASE ChanOf(i) = 0 -> v
          [] ChanOf(i) = 1 -> 255 - v
          [] ChanOf(i) = 2 -> (v + b) \div 2
          [] OTHER         -> (b + 40 * x + 90 * y) % 256]

DrawnBuffers(width, height) ==
  { DrawnBuffer(pat, vp[1], vp[2], width, height) :
      pat \in Patterns, vp \in ValuePairs }

\* ------------------------------------------------- the component's values
NoImage == [kind |-> "none", width |-> 0, height |-> 0, ok |-> FALSE,
            dpi |-> 0, preset |-> "none"]
NoSource == [width |-> 0, height |-> 0, ok |-> FALSE]
NoClosure == [image |-> NoSource, resolution |-> RESOLUTIONS[2],
              preset |-> ENHANCEMENT_PRESETS[1]]
NoDownload == [name |-> << >>, image |-> NoImage]

AppIdle ==
  /\ image = NoImage
  /\ isProcessing = FALSE
  /\ selectedResolution = RESOLUTIONS[2]
  /\ selectedPreset = ENHANCEMENT_PRESETS[1]
  /\ epc = "idle"
  /\ closure = NoClosure
  /\ download = NoDownload

\* ------------------------------------------------- the load callback's body
Stages == << "resample", "denoise", "deblur", "tone", "sharpen" >>

PipeInit ==
  /\ AppIdle
  /\ tieMode \in TieModes
  /\ img \in { d \in [width : 1..MaxImg, height : 1..MaxImg] : TRUE }
  /\ resolution \in { RESOLUTIONS[k] : k \in 1..Len(RESOLUTIONS) }
  /\ CanvasSize(img.width, resolution.dpi) * CanvasSize(img.height, resolution.dpi)
       <= MaxPixels
  /\ settings \in SettingsDomain
  /\ pc = "onload"
  /\ canvas = [width |-> 0, height |-> 0]
  /\ data = << >>
  /\ pre = << >>
  /\ orig = << >>
  /\ log = << >>

\* img.onload up to drawImage (lines 304-317)
Resample ==
  /\ pc = "onload"
  /\ LET w == CanvasSize(img.width, resolution.dpi)
         h == CanvasSize(img.height, resolution.dpi)
     IN /\ canvas' = [width |-> w, height |-> h]
        /\ \E buf \in DrawnBuffers(w, h) :
             /\ data' = buf
             /\ orig' = buf
             /\ pre' = buf
  /\ log' = << "resample" >>
  /\ pc' = "denoise"
  /\ UNCHANGED << appVars, img, resolution, settings, tieMode >>

\* applyImageEnhancements, lines 230-233
DenoiseStage ==
  /\ pc = "denoise"
  /\ pre' = data
  /\ IF RunsDenoise(settings)
     THEN /\ data' = applyDenoise(data, canvas.width, canvas.height, settings.denoise)
          /\ log' = Append(log, "denoise")
     ELSE UNCHANGED << data, log >>
  /\ pc' = "deblur"
  /\ UNCHANGED << appVars, img, resolution, settings, canvas, orig, tieMode >>

\* applyImageEnhancements, lines 235-238
DeblurStage ==
  /\ pc = "deblur"
  /\ pre' = data
  /\ IF RunsDeblur(settings)
     THEN /\ data' = applyDeblur(data, canvas.width, canvas.height, settings.deblur)
          /\ log' = Append(log, "deblur")
     ELSE UNCHANGED << data, log >>
  /\ pc' = "tone"
  /\ UNCHANGED << appVars, img, resolution, settings, canvas, orig, tieMode >>

\* applyImageEnhancements, lines 240-257
ToneStage ==
  /\ pc = "tone"
  /\ pre' = data
  /\ data' = applyTone(data, settings.brightness, settings.contrast)
  /\ log' = Append(log, "tone")
  /\ pc' = "sharpen"
  /\ UNCHANGED << appVars, img, resolution, settings, canvas, orig, tieMode >>

\* applyImageEnhancements, lines 259-291
SharpenStage ==
  /\ pc = "sharpen"
  /\ pre' = data
  /\ IF RunsSharpen(settings)
     THEN /\ data' = applySharpen(data, canvas.width, canvas.height, settings.sharpness)
          /\ log' = Append(log, "sharpen")
     ELSE UNCHANGED << data, log >>
  /\ pc' = "encode"
  /\ UNCHANGED << appVars, img, resolution, settings, canvas, orig, tieMode >>

\* canvas.toDataURL, setImage, resolve (lines 327-330)
Deliver ==
  /\ pc = "encode"
  /\ pc' = "done"
  /\ UNCHANGED << appVars, img, resolution, settings, canvas, data, pre, orig,
                  log, tieMode >>

PipeNext ==
  \/ Resample
  \/ DenoiseStage
  \/ DeblurStage
  \/ ToneStage
  \/ SharpenStage
  \/ Deliver

PipeSpec == PipeInit /\ [][PipeNext]_vars


\* ---------------------------------------------------------- the component
\* The pipeline's variables are not the component's: the canvas is local to
\* the load callback and what the callback leaves behind is the data URL in
\* image.  An image is kept as its size, whether it decodes, and, for an
\* enhanced one, the dpi and preset the enhance ran with; its pixels went
\* through the lossy JPEG encoder and are not followed.
PipeIdle ==
  /\ pc = "none"
  /\ img = [width |-> 0, height |-> 0]
  /\ resolution = RESOLUTIONS[2]
  /\ settings = ENHANCEMENT_PRESETS[1].settings
  /\ canvas = [width |-> 0, height |-> 0]
  /\ data = << >>
  /\ pre = << >>
  /\ orig = << >>
  /\ log = << >>

Init ==
  /\ AppIdle
  /\ PipeIdle
  /\ tieMode = "even"

\* selectedPreset.name.toLowerCase()
ToLowerCase(name) ==
  CASE name = "Balanced"   -> "balanced"
    [] name = "Clarity"    -> "clarity"
    [] name = "HDR"        -> "hdr"
    [] name = "AI Enhance" -> "ai enhance"
    [] OTHER               -> name

\* `enhanced-image-${dpi}dpi-${preset}.jpg`
FileName(dpi, preset) == << "enhanced-image-", dpi, "dpi-", preset, ".jpg" >>

\* handleFileUpload with reader.onloadend: the file read becomes the image.
\* The input is rendered only while there is no image.  The file may be one
\* the browser cannot decode, or one that decodes to a zero width or height.
HandleFileUpload ==
  /\ image = NoImage
  /\ \/ \E w \in 0..MaxUpload, h \in 0..MaxUpload :
          image' = [kind |-> "raw", width |-> w, height |-> h, ok |-> TRUE,
                    dpi |-> 0, preset |-> "none"]
     \/ image' = [kind |-> "raw", width |-> 0, height |-> 0, ok |-> FALSE,
                  dpi |-> 0, preset |-> "none"]
  /\ download' = NoDownload
  /\ UNCHANGED << isProcessing, selectedResolution, selectedPreset, epc,
                  closure, pipeVars, tieMode >>

\* onClick={() => setSelectedPreset(preset)}
SelectPreset ==
  /\ image # NoImage
  /\ \E k \in 1..Len(ENHANCEMENT_PRESETS) : selectedPreset' = ENHANCEMENT_PRESETS[k]
  /\ download' = NoDownload
  /\ UNCHANGED << image, isProcessing, selectedResolution, epc, closure,
                  pipeVars, tieMode >>

\* onClick={() => setSelectedResolution(res)}
SelectResolution ==
  /\ image # NoImage
  /\ \E k \in 1..Len(RESOLUTIONS) : selectedResolution' = RESOLUTIONS[k]
  /\ download' = NoDownload
  /\ UNCHANGED << image, isProcessing, selectedPreset, epc, closure, pipeVars, tieMode >>

\* onClick={() => setImage(null)}
StartOver ==
  /\ image # NoImage
  /\ image' = NoImage
  /\ download' = NoDownload
  /\ UNCHANGED << isProcessing, selectedResolution, selectedPreset, epc,
                  closure, pipeVars, tieMode >>

\* enhanceImage up to the await: the button is disabled while isProcessing.
\* The closure holds the image and the selections of the render clicked in.
EnhanceImage ==
  /\ image # NoImage
  /\ ~isProcessing
  /\ CanvasSize(image.width, selectedResolution.dpi) <= MaxCanvas
  /\ CanvasSize(image.height, selectedResolution.dpi) <= MaxCanvas
  /\ isProcessing' = TRUE
  /\ closure' = [image |-> [width |-> image.width, height |-> image.height,
                               ok |-> image.ok],
                 resolution |-> selectedResolution, preset |-> selectedPreset]
  /\ epc' = "awaitLoad"
  /\ download' = NoDownload
  /\ UNCHANGED << image, selectedResolution, selectedPreset, pipeVars, tieMode >>

\* img.onload with a drawing context: the whole callback, then resolve.  It
\* fires only for an image that decodes; the source sets no onerror.
OnLoad ==
  /\ epc = "awaitLoad"
  /\ closure.image.ok
  /\ LET w == CanvasSize(closure.image.width, closure.resolution.dpi)
         h == CanvasSize(closure.image.height, closure.resolution.dpi)
     IN /\ w > 0 /\ h > 0
        /\ image' = [kind |-> "enhanced", width |-> w, height |-> h,
                     ok |-> TRUE, dpi |-> closure.resolution.dpi,
                     preset |-> closure.preset.name]
  /\ epc' = "resolved"
  /\ download' = NoDownload
  /\ UNCHANGED << isProcessing, selectedResolution, selectedPreset, closure,
                  pipeVars, tieMode >>

\* img.onload on a canvas of zero width or height: getImageData(0, 0, w, h)
\* throws IndexSizeError (line 191), the callback ends before resolve.
OnLoadThrows ==
  /\ epc = "awaitLoad"
  /\ closure.image.ok
  /\ \/ CanvasSize(closure.image.width, closure.resolution.dpi) = 0
     \/ CanvasSize(closure.image.height, closure.resolution.dpi) = 0
  /\ epc' = "threw"
  /\ download' = NoDownload
  /\ UNCHANGED << image, isProcessing, selectedResolution, selectedPreset,
                  closure, pipeVars, tieMode >>

\* img.onload when getContext('2d') returns null: resolve alone.
OnLoadNoContext ==
  /\ epc = "awaitLoad"
  /\ closure.image.ok
  /\ epc' = "resolved"
  /\ download' = NoDownload
  /\ UNCHANGED << image, isProcessing, selectedResolution, selectedPreset,
                  closure, pipeVars, tieMode >>

\* after the await: setIsProcessing(false); the invocation and its closure
\* are gone
Resume ==
  /\ epc = "resolved"
  /\ isProcessing' = FALSE
  /\ epc' = "idle"
  /\ closure' = NoClosure
  /\ download' = NoDownload
  /\ UNCHANGED << image, selectedResolution, selectedPreset, pipeVars, tieMode >>

\* downloadImage
DownloadImage ==
  /\ image # NoImage
  /\ download' = [name |-> FileName(selectedResolution.dpi,
                                    ToLowerCase(selectedPreset.name)),
                  image |-> image]
  /\ UNCHANGED << image, isProcessing, selectedResolution, selectedPreset, epc,
                  closure, pipeVars, tieMode >>

Next ==
  \/ HandleFileUpload
  \/ SelectPreset
  \/ SelectResolution
  \/ StartOver
  \/ EnhanceImage
  \/ OnLoad
  \/ OnLoadThrows
  \/ OnLoadNoContext
  \/ Resume
  \/ DownloadImage

Spec == Init /\ [][Next]_vars

\* The browser fires the load event of an image that decodes, and the
\* continuation of a resolved await runs.
FairSpec ==
  /\ Spec
  /\ WF_vars(OnLoad \/ OnLoadThrows \/ OnLoadNoContext)
  /\ WF_vars(Resume)


\* ================================================================ claims
\* Helpers of the statements below.  They restate what a claim says in its
\* own terms (coordinates, sets, inequalities) and use none of the filter
\* operators above.
Ran(stage) == \E k \in 1..Len(log) : log[k] = stage

Rank(stage) == CHOOSE k \in 1..Len(Stages) : Stages[k] = stage

Colour(i) == i % 4 # 3

\* b is a byte nearest to num/den clamped to [0, 255]
NearestByte(b, num, den) ==
  LET cl == IF num < 0 THEN 0 ELSE IF num > 255 * den THEN 255 * den ELSE num
  IN /\ b \in 0..255
     /\ 2 * b * den - 2 * cl <= den
     /\ 2 * cl - 2 * b * den <= den

\* the least integer r with r >= factor * strength (strength in hundredths)
ClaimRadius(factor, strength) ==
  CHOOSE r \in 0..(factor * strength) : /\ 100 * r >= factor * strength
                                        /\ 100 * (r - 1) < factor * strength

\* Math.round(num / den), num >= 0
Round(num, den) == (2 * num + den) \div (2 * den)

RECURSIVE SumOver(_, _)
SumOver(S, f) ==
  IF S = {} THEN 0
  ELSE LET e == CHOOSE e \in S : TRUE IN f[e] + SumOver(S \ {e}, f)

\* the sum of channel c of buf over the pixels within r of (x, y)
WindowSum(buf, width, x, y, c, r) ==
  LET W == ((x - r)..(x + r)) \X ((y - r)..(y + r))
  IN SumOver(W, [q \in W |-> buf[(q[2] * width + q[1]) * 4 + c]])

FullWindow(width, height, x, y, r) ==
  /\ x - r >= 0 /\ x + r <= width - 1
  /\ y - r >= 0 /\ y + r <= height - 1

PixelsOf(cv) == (0..(cv.width - 1)) \X (0..(cv.height - 1))

\* ------------------------------------------------------------------- C1
\* C1: in every enhance invocation the stages run in the order resample,
\* denoise, deblur, tone-adjust, sharpen, one after the other; denoise is
\* skipped exactly when settings.denoise = 0, deblur exactly when
\* settings.deblur = 0, sharpen exactly when settings.sharpness <= 1, and
\* tone-adjust always runs.
C1_StageOrder ==
  /\ \A i, j \in 1..Len(log) : i < j => Rank(log[i]) < Rank(log[j])
  /\ pc # "onload" => Len(log) >= 1 /\ log[1] = "resample"
  /\ pc = "onload" => log = << >>
  /\ pc = "denoise" => ~Ran("denoise")
  /\ pc \in {"onload", "denoise", "deblur"} => ~Ran("deblur")
  /\ pc \in {"onload", "denoise", "deblur", "tone"} => ~Ran("tone")
  /\ pc \in {"onload", "denoise", "deblur", "tone", "sharpen"} => ~Ran("sharpen")
  /\ pc \in {"deblur", "tone", "sharpen", "encode", "done"}
       => (Ran("denoise") <=> settings.denoise # 0)
  /\ pc \in {"tone", "sharpen", "encode", "done"}
       => (Ran("deblur") <=> settings.deblur # 0)
  /\ pc \in {"sharpen", "encode", "done"} => Ran("tone")
  /\ pc \in {"encode", "done"} => (Ran("sharpen") <=> ~(settings.sharpness <= 100))

\* an invocation that ran to its end with one filter skipped and others run
C1_Witness ==
  /\ pc = "done"
  /\ log = << "resample", "deblur", "tone" >>
  /\ settings.denoise = 0 /\ settings.sharpness <= 100

\* ------------------------------------------------------------------- C2
\* C2: after each of the stages denoise, deblur, tone-adjust and sharpen
\* every colour channel value of every pixel is within [0, 255], and every
\* pixel's alpha byte is the one it had before the first filter stage.
C2_RangeAndAlpha ==
  pc \in {"deblur", "tone", "sharpen", "encode", "done"} =>
    \A i \in DOMAIN data :
      /\ data[i] \in 0..255
      /\ ~Colour(i) => data[i] = orig[i]

\* all four filters ran, values were clamped at both ends, alpha varies
C2_Witness ==
  /\ pc = "encode"
  /\ Ran("denoise") /\ Ran("deblur") /\ Ran("sharpen")
  /\ \E i, j \in DOMAIN data :
       /\ Colour(i) /\ data[i] = 255 /\ orig[i] < 255
       /\ Colour(j) /\ data[j] = 0 /\ orig[j] > 0
  /\ \E i, j \in DOMAIN data : ~Colour(i) /\ ~Colour(j) /\ data[i] # data[j]

\* ------------------------------------------------------------------- C3
\* C3 as claimed: the resampled buffer has width max(1, round(w * dpi / 72))
\* and height max(1, round(h * dpi / 72)).
C3_Rounded ==
  pc # "onload" =>
    /\ canvas.width = Max(1, Round(img.width * resolution.dpi, 72))
    /\ canvas.height = Max(1, Round(img.height * resolution.dpi, 72))

\* C3 as amended: the resampled buffer has width floor(w * dpi / 72) and
\* height floor(h * dpi / 72), which is at least 1; at dpi = 72 the width
\* and height are the source's.
C3_Floored ==
  pc # "onload" =>
    /\ 72 * canvas.width <= img.width * resolution.dpi
    /\ img.width * resolution.dpi < 72 * (canvas.width + 1)
    /\ 72 * canvas.height <= img.height * resolution.dpi
    /\ img.height * resolution.dpi < 72 * (canvas.height + 1)
    /\ canvas.width >= 1 /\ canvas.height >= 1
    /\ DOMAIN data = 0..(4 * canvas.width * canvas.height - 1)
    /\ resolution.dpi = 72 => canvas.width = img.width /\ canvas.height = img.height

\* a resample whose exact width has a fraction of one half or more
C3_Witness ==
  /\ pc = "denoise"
  /\ canvas.width # Round(img.width * resolution.dpi, 72)

\* ------------------------------------------------------------------- C4
\* C4: a download of an enhanced image uses a file name that encodes the dpi
\* and the preset that enhance ran with, whatever was selected since.
C4_DownloadNamesEnhance ==
  download.image.kind = "enhanced" =>
    download.name = FileName(download.image.dpi, ToLowerCase(download.image.preset))

\* ------------------------------------------------------------------- C5
\* C5: every enhance invocation that sets the processing flag eventually
\* completes, and the flag is cleared, also when the image fails to decode
\* or has a zero dimension.
C5_EnhanceCompletes == isProcessing ~> ~isProcessing

\* ------------------------------------------------------------------- C6
\* C6: the denoise stage with strength 0, the deblur stage with strength 0
\* and the sharpen stage with sharpness <= 1 each leave every byte of the
\* buffer as it was before the stage.
C6_NoOpLaws ==
  /\ pc = "deblur" /\ settings.denoise = 0 => data = pre
  /\ pc = "tone" /\ settings.deblur = 0 => data = pre
  /\ pc = "encode" /\ settings.sharpness <= 100 => data = pre

\* the sharpen stage was passed with sharpness 1 on a buffer that is not flat
C6_Witness ==
  /\ pc = "encode"
  /\ settings.sharpness = 100 /\ settings.denoise = 0 /\ settings.deblur = 0
  /\ canvas.width >= 3 /\ canvas.height >= 3
  /\ \E i, j \in DOMAIN data : i % 4 = 0 /\ j % 4 = 0 /\ data[i] # data[j]
  /\ data = pre

\* ------------------------------------------------------------------- C7
\* C7: with r = ceil(strength * 2) for denoise and r = ceil(strength * 3)
\* for deblur, every pixel with x < r, x >= width - r, y < r or
\* y >= height - r has all four bytes unchanged by the filter, whatever the
\* buffer's size.
BorderKept(r) ==
  \A q \in PixelsOf(canvas) :
    (q[1] < r \/ q[1] >= canvas.width - r \/ q[2] < r \/ q[2] >= canvas.height - r)
      => \A c \in 0..3 :
           data[(q[2] * canvas.width + q[1]) * 4 + c]
             = pre[(q[2] * canvas.width + q[1]) * 4 + c]

C7_BorderUnchanged ==
  /\ pc = "deblur" /\ Ran("denoise") => BorderKept(ClaimRadius(2, settings.denoise))
  /\ pc = "tone" /\ Ran("deblur") => BorderKept(ClaimRadius(3, settings.deblur))

\* denoise changed a pixel inside a buffer that has a border
C7_Witness ==
  /\ pc = "deblur" /\ Ran("denoise")
  /\ ClaimRadius(2, settings.denoise) = 2
  /\ data # pre

\* ------------------------------------------------------------------- C8
\* C8: for every pixel with a full (2*radius+1)^2 window and each colour
\* channel, deblur takes original and localMean from the buffer as it was
\* before the filter and, with diff = original - localMean and
\* amount = strength * 1.5, writes clamp(original + diff * amount, 0, 255)
\* when |diff| > 10 and leaves the value otherwise.
\*   diff = dn / count with dn = original*count - sum, so
\*   original + diff * amount = (1000*count*original + 15*strength*dn) / (1000*count)
DeblurAsClaimed(q, c) ==
  LET r == ClaimRadius(3, settings.deblur)
      count == (2 * r + 1) * (2 * r + 1)
      i == (q[2] * canvas.width + q[1]) * 4 + c
      dn == pre[i] * count - WindowSum(pre, canvas.width, q[1], q[2], c, r)
  IN IF dn > 10 * count \/ -dn > 10 * count
     THEN NearestByte(data[i], 1000 * count * pre[i] + 15 * settings.deblur * dn,
                      1000 * count)
     ELSE data[i] = pre[i]

C8_DeblurFormula ==
  pc = "tone" /\ Ran("deblur") =>
    \A q \in PixelsOf(canvas) :
      FullWindow(canvas.width, canvas.height, q[1], q[2], ClaimRadius(3, settings.deblur))
        => \A c \in 0..2 : DeblurAsClaimed(q, c)

\* deblur raised one value and left another, whose diff was within 10, alone
C8_Witness ==
  /\ pc = "tone" /\ Ran("deblur")
  /\ LET r == ClaimRadius(3, settings.deblur)
         count == (2 * r + 1) * (2 * r + 1)
     IN \E q1, q2 \in PixelsOf(canvas) :
          /\ FullWindow(canvas.width, canvas.height, q1[1], q1[2], r)
          /\ FullWindow(canvas.width, canvas.height, q2[1], q2[2], r)
          /\ LET i1 == (q1[2] * canvas.width + q1[1]) * 4
                 i2 == (q2[2] * canvas.width + q2[1]) * 4
                 d2 == pre[i2] * count - WindowSum(pre, canvas.width, q2[1], q2[2], 0, r)
             IN /\ data[i1] # pre[i1]
                /\ d2 # 0 /\ d2 <= 10 * count /\ -d2 <= 10 * count
                /\ data[i2] = pre[i2]

\* ------------------------------------------------------------------- C9
\* C9: tone adjustment applies brightness first and contrast second, to the
\* brightness-adjusted value as the buffer holds it:
\*   m      = clamp(v * brightness, 0, 255)
\*   result = clamp(((m / 255 - 0.5) * contrast + 0.5) * 255, 0, 255)
\* each a byte of the buffer (a nearest one); 200 with brightness 1.2 and
\* contrast 1.0 gives 240, and for some input with contrast other than 1
\* the contrast-then-brightness order gives another result.
ToneAsClaimed(v, result, brightness, contrast) ==
  LET bn == v * brightness
      q == Min(bn, 25500) \div 100
  IN \E m \in {q, q + 1} :
       /\ NearestByte(m, bn, 100)
       /\ NearestByte(result, (2 * m - 255) * contrast + 25500, 200)

\* contrast first, then brightness, each stored as a byte
ContrastThenBrightness(v, result, brightness, contrast) ==
  LET cn == (2 * v - 255) * contrast + 25500
      cl == IF cn < 0 THEN 0 ELSE IF cn > 51000 THEN 51000 ELSE cn
      q == cl \div 200
  IN \E m \in {q, q + 1} :
       /\ NearestByte(m, cn, 200)
       /\ NearestByte(result, m * brightness, 100)

C9_ToneOrder ==
  pc = "sharpen" =>
    /\ \A i \in DOMAIN data :
         Colour(i) => ToneAsClaimed(pre[i], data[i], settings.brightness,
                                    settings.contrast)
    /\ settings.brightness = 120 /\ settings.contrast = 100
         => \A i \in DOMAIN data : Colour(i) /\ pre[i] = 200 => data[i] = 240
    /\ ToneChannel(200, 120, 100) = 240
    /\ \E k \in 1..Len(ENHANCEMENT_PRESETS), v \in 0..255 :
         LET st == ENHANCEMENT_PRESETS[k].settings
         IN /\ st.contrast # 100
            /\ ~ContrastThenBrightness(v, ToneChannel(v, st.brightness, st.contrast),
                                       st.brightness, st.contrast)

\* a channel value 200 went through brightness 1.2, contrast 1.0
C9_Witness ==
  /\ pc = "sharpen"
  /\ settings.brightness = 120 /\ settings.contrast = 100
  /\ \E i \in DOMAIN data : Colour(i) /\ pre[i] = 200 /\ data[i] = 240

\* ------------------------------------------------------------------ C10
\* C10: when sharpness > 1, for every non-border pixel whose 3x3
\* neighbourhood holds one value v in a colour channel before the stage, the
\* sharpen stage writes clamp(v * (1 + boost), 0, 255) with
\* boost = (sharpness - 1) * 0.8: uniform regions are scaled, not kept.
\*   1 + boost = (1000 + 8 * (sharpness - 100)) / 1000
Uniform3x3(q, c, v) ==
  \A dx, dy \in -1..1 :
    pre[((q[2] + dy) * canvas.width + (q[1] + dx)) * 4 + c] = v

C10_SharpenUniform ==
  pc = "encode" /\ settings.sharpness > 100 =>
    \A q \in PixelsOf(canvas) :
      FullWindow(canvas.width, canvas.height, q[1], q[2], 1) =>
        \A c \in 0..2 :
          LET i == (q[2] * canvas.width + q[1]) * 4 + c
          IN Uniform3x3(q, c, pre[i]) =>
               NearestByte(data[i], pre[i] * (1000 + 8 * (settings.sharpness - 100)),
                           1000)

\* a uniform neighbourhood came out scaled and below the clamp
C10_Witness ==
  /\ pc = "encode" /\ settings.sharpness > 100
  /\ \E q \in PixelsOf(canvas) :
       /\ FullWindow(canvas.width, canvas.height, q[1], q[2], 1)
       /\ LET i == (q[2] * canvas.width + q[1]) * 4
          IN /\ Uniform3x3(q, 0, pre[i])
             /\ data[i] > pre[i] /\ data[i] < 255


====
